---- MODULE Spec2Model ----
(***************************************************************************)
(* Model of enn/networks/hypermodels.py.                                   *)
(*                                                                         *)
(* Three components are modelled, each with a specification of its own:    *)
(*   SpecHyper   hypermodel_module / MLPHypermodel: construction from a    *)
(*               base network, init, apply (hyper_fn) and parameter        *)
(*               updates;                                                  *)
(*   SpecPrior   PriorMLPIndependentLayers: construction and call;         *)
(*   SpecCompose MLPHypermodelWithHypermodelPrior and                      *)
(*               MLPHypermodelPriorIndependentLayers.                      *)
(*                                                                         *)
(* A tensor is a record [shape, data, rsq]: data is the row-major list of  *)
(* integer entries and the tensor's value is data / sqrt(rsq), which keeps *)
(* the division by sqrt(value.shape[0]) of scale_fn exact.  A parameter    *)
(* tree is the sequence of its leaves in tree-leaf order, each leaf a      *)
(* record [mod, name, val].                                                *)
(***************************************************************************)
EXTENDS Integers, Sequences, FiniteSets, TLC

VARIABLES cfg, base_params, base_shapes, base_shapes_flat, params, first_call, between, last_call, prior, pparams, pcall, comp, cparams, papply

hyper_vars == <<cfg, base_params, base_shapes, base_shapes_flat, params, first_call, between, last_call>>

prior_vars == <<prior, pparams, pcall>>

comp_vars == <<comp, cparams, papply>>

vars == <<hyper_vars, prior_vars, comp_vars>>

(***************************************************************************)
(* Bounds of the model.                                                    *)
(***************************************************************************)
\* largest layer width, kernel width and input width of a base network
MaxDim == 2

\* largest number of layers of a base network
MaxLayers == 2

\* largest index dimension the indexer produces (besides the diagonal one)
MaxIndexDim == 2

\* largest index dimension given to PriorMLPIndependentLayers
MaxPriorIndexDim == 4

\* the rng seeds parameters are drawn with, and the ids of trained values
Seeds == {1, 2}

\* the network inputs x (arrays of the shape of dummy_input)
Inputs == {"x1", "x2"}

\* the families of entries an index vector is filled with
IndexIds == {1, 2}

(***************************************************************************)
(* Arrays.                                                                 *)
(***************************************************************************)
\* a list, held as its elements: the same value as s
List(s) == s \o <<>>

RECURSIVE ProdTo(_, _)
ProdTo(s, n) == IF n = 0 THEN 1 ELSE s[n] * ProdTo(s, n - 1)

\* np.prod
Prod(s) == ProdTo(s, Len(s))

RECURSIVE SumTo(_, _)
SumTo(s, n) == IF n = 0 THEN 0 ELSE s[n] + SumTo(s, n - 1)

\* np.sum
SumSeq(s) == SumTo(s, Len(s))

\* np.cumsum
CumSum(s) == List([i \in 1..Len(s) |-> SumTo(s, i)])

\* s[:-1]
ButLast(s) == SubSeq(s, 1, Len(s) - 1)

Tensor(shape, data) == [shape |-> shape, data |-> List(data), rsq |-> 1]

\* jnp.shape
Shape(t) == t.shape

\* jnp.ravel: the one-dimensional array of the entries
Ravel(t) == [shape |-> <<Len(t.data)>>, data |-> t.data, rsq |-> t.rsq]

\* jnp.reshape: fails when the sizes differ
CanReshape(t, shape) == Prod(shape) = Len(t.data)

Reshape(t, shape) == [shape |-> shape, data |-> t.data, rsq |-> t.rsq]

\* jnp.split(a, indices) of a one-dimensional array: the pieces
\* a[0:i1], a[i1:i2], ..., a[ik:]
Split(t, indices) ==
  LET bnd == <<0>> \o indices \o <<Len(t.data)>>
  IN  List([k \in 1..(Len(indices) + 1) |->
         LET n == Len(t.data)
             lo == IF bnd[k] > n THEN n ELSE bnd[k]
             hi == IF bnd[k + 1] > n THEN n ELSE bnd[k + 1]
         IN  [shape |-> <<IF hi > lo THEN hi - lo ELSE 0>>,
              data |-> SubSeq(t.data, lo + 1, hi),
              rsq |-> t.rsq]])

\* jax.tree_leaves
TreeLeaves(tree) == List([k \in 1..Len(tree) |-> tree[k].val])

\* jax.tree_structure: the module and parameter names, in leaf order
TreeStructure(tree) == List([k \in 1..Len(tree) |-> [mod |-> tree[k].mod, name |-> tree[k].name]])

\* jax.tree_unflatten
TreeUnflatten(struct, leaves) == List([k \in 1..Len(struct) |-> [mod |-> struct[k].mod, name |-> struct[k].name, val |-> leaves[k]]])

(***************************************************************************)
(* The base network (transformed_base): an external collaborator.  A base  *)
(* network is a stack of 1..MaxLayers haiku layers of one kind fed by      *)
(* dummy_input of width in0 (1, or the layers' width); every layer has     *)
(* `width` outputs and is an hk.Linear (w: [in, out], b: [out]) or an      *)
(* hk.Conv1D of kernel width `width` (w: [kernel, in, out], b: [out]).     *)
(***************************************************************************)
LayerKinds == {"linear", "conv1d"}

BaseNets == {n \in [in0 : 1..MaxDim, width : 1..MaxDim, kind : LayerKinds, depth : 1..MaxLayers] : n.in0 \in {1, n.width}}

\* the number of inputs of layer i
LayerIn(net, i) == IF i = 1 THEN net.in0 ELSE net.width

WShape(net, i) == IF net.kind = "linear" THEN <<LayerIn(net, i), net.width>> ELSE <<net.width, LayerIn(net, i), net.width>>

ModuleName(net, i) == <<net.kind, i - 1>>

\* transformed_base.init(rng, dummy_input): leaves b, w of every layer, biases
\* zero and weights non-zero
BaseInit(net) ==
  List([k \in 1..(2 * net.depth) |->
     LET i == (k + 1) \div 2
     IN  IF k % 2 = 1
         THEN [mod |-> ModuleName(net, i), name |-> "b", val |-> Tensor(<<net.width>>, [j \in 1..net.width |-> 0])]
         ELSE [mod |-> ModuleName(net, i), name |-> "w", val |-> Tensor(WShape(net, i), [j \in 1..Prod(WShape(net, i)) |-> 1 + (j % 2)])]])

\* transformed_base.apply(params, inputs): any function of its two arguments
BaseApply(p, inputs) == [fn |-> "transformed_base.apply", params |-> p, inputs |-> inputs]

\* the fan-in n_i of the layer a weight belongs to (the docstring of
\* hypermodel_module): the number of inputs that feed one output, which is
\* every dimension of the weight but the last (output) one
FanIn(shape) == IF Len(shape) <= 1 THEN Prod(shape) ELSE Prod(ButLast(shape))

(***************************************************************************)
(* hypermodel_module: what it computes once, at construction.              *)
(***************************************************************************)
\* base_params = transformed_base.init(jax.random.PRNGKey(0), dummy_input)
BaseParams(net) == BaseInit(net)

\* base_params_flat = jax.tree_map(jnp.ravel, base_params)
BaseParamsFlat(net) == LET tree == BaseParams(net) IN List([k \in 1..Len(tree) |-> [mod |-> tree[k].mod, name |-> tree[k].name, val |-> Ravel(tree[k].val)]])

\* base_shapes = jax.tree_map(lambda x: jnp.array(jnp.shape(x)), base_params)
BaseShapes(net) == LET tree == BaseParams(net) IN List([k \in 1..Len(tree) |-> [mod |-> tree[k].mod, name |-> tree[k].name, val |-> Shape(tree[k].val)]])

\* base_shapes_flat = jax.tree_map(len, base_params_flat)
BaseShapesFlat(net) == LET tree == BaseParamsFlat(net) IN List([k \in 1..Len(tree) |-> [mod |-> tree[k].mod, name |-> tree[k].name, val |-> Len(tree[k].val.data)]])

\* np.sum(jax.tree_leaves(base_shapes_flat))
TotalSize(shapes_flat) == SumSeq(TreeLeaves(shapes_flat))

(***************************************************************************)
(* Haiku modules used by hyper_fn.                                         *)
(***************************************************************************)
\* entry of a parameter drawn for rng seed `seed`
ParamVal(seed, salt, j) == ((seed + salt + 2 * j) % 3) - 1

\* hk.Linear(out) parameters for an input of width n
LinearParams(seed, salt, n, out) == [w |-> Tensor(<<n, out>>, [j \in 1..(n * out) |-> ParamVal(seed, salt, j)]), b |-> Tensor(<<out>>, [j \in 1..out |-> ParamVal(seed, salt + 1, j) * (seed - 1)])]

\* hk.Linear.__call__: x @ w + b over the last axis of x
LinearOK(p, x) == Len(x.shape) >= 1 /\ x.shape[Len(x.shape)] = p.w.shape[1]

LinearCall(p, x) ==
  LET n    == p.w.shape[1]
      out  == p.w.shape[2]
      rows == Len(x.data) \div n
  IN  [shape |-> ButLast(x.shape) \o <<out>>,
       data  |-> List([q \in 1..(rows * out) |->
                    LET r == (q - 1) \div out
                        j == ((q - 1) % out) + 1
                    IN  SumSeq(List([i \in 1..n |-> x.data[r * n + i] * p.w.data[(i - 1) * out + j]])) + p.b.data[j]]),
       rsq   |-> 1]

\* DiagonalLinear parameters for an input of width n.  w is represented by
\* the value of log(1 + exp(w)), a positive number
DiagonalParams(seed, n) == [softplus_w |-> List([j \in 1..n |-> 1 + ((seed + j) % 2)]), b |-> List([j \in 1..n |-> (seed - 1) * ParamVal(seed, 0, j)])]

\* DiagonalLinear.__call__: inputs * log(1 + exp(w)) + b, elementwise; the
\* parameters w, b have the width of the input they were created for
DiagonalLinearOK(p, inputs) == inputs.shape # <<>> /\ Len(inputs.data) = Len(p.softplus_w)

DiagonalLinearCall(p, inputs) == [shape |-> inputs.shape, data |-> List([j \in 1..Len(inputs.data) |-> inputs.data[j] * p.softplus_w[j] + p.b[j]]), rsq |-> 1]

\* jax.nn.relu
Relu(t) == [shape |-> t.shape, data |-> List([j \in 1..Len(t.data) |-> IF t.data[j] > 0 THEN t.data[j] ELSE 0]), rsq |-> t.rsq]

\* hk.nets.MLP(hidden_sizes)(index): linear layers with a relu between them;
\* no layer at all (hidden_sizes None or empty) is the identity
RECURSIVE MLPOK(_, _)
MLPOK(ps, x) == IF ps = <<>> THEN TRUE ELSE LinearOK(Head(ps), x) /\ MLPOK(Tail(ps), IF Len(ps) > 1 THEN Relu(LinearCall(Head(ps), x)) ELSE LinearCall(Head(ps), x))

RECURSIVE MLPCall(_, _)
MLPCall(ps, x) == IF ps = <<>> THEN x ELSE MLPCall(Tail(ps), IF Len(ps) > 1 THEN Relu(LinearCall(Head(ps), x)) ELSE LinearCall(Head(ps), x))

\* MLPHypermodel.__init__: hyper_torso is the identity when hidden_sizes is
\* None and an MLP otherwise
HyperTorsoOK(p, index) == MLPOK(p.torso, index)

HyperTorso(p, index) == MLPCall(p.torso, index)

(***************************************************************************)
(* hypermodel_module.scale_fn and hypermodel_module.hyper_fn.              *)
(***************************************************************************)
\* value / jnp.sqrt(value.shape[0]) if name == 'w' else value
ScaleFn(module_name, name, value) == IF name = "w" THEN [shape |-> value.shape, data |-> value.data, rsq |-> value.rsq * value.shape[1]] ELSE value

\* hk.data_structures.map(scale_fn, tree)
HkMap(tree) == List([k \in 1..Len(tree) |-> [mod |-> tree[k].mod, name |-> tree[k].name, val |-> ScaleFn(tree[k].mod, tree[k].name, tree[k].val)]])

\* scale_fn reads value.shape[0], which a scalar weight does not have
HkMapOK(tree) == \A k \in 1..Len(tree) : tree[k].name = "w" => Len(tree[k].val.shape) >= 1

\* base.OutputWithPrior(train, extra)
OutputWithPrior(train, extra) == [type |-> "OutputWithPrior", train |-> train, extra |-> extra]

Failed(why) == [status |-> why, flat_output |-> <<>>, generated_params |-> <<>>, generated_params_scaled |-> <<>>, out |-> [type |-> "raised"]]

\* a mutant of AssertShape: any one-dimensional index is accepted
AssertShapeAnyLength(index, shapes_flat) == Len(index.shape) = 1

\* chex.assert_shape(index, (np.sum(jax.tree_leaves(base_shapes_flat)),))
AssertShape(index, shapes_flat) == index.shape = <<TotalSize(shapes_flat)>>

\* the diagonal branch: DiagonalLinear()(index) cut at the cumulative sizes
DiagonalFlatOutput(p, shapes, shapes_flat, index) == TreeUnflatten(TreeStructure(shapes), Split(DiagonalLinearCall(p.diagonal_linear, index), ButLast(CumSum(TreeLeaves(shapes_flat)))))

\* the linear branch: one hk.Linear of size base_shapes_flat per leaf, applied
\* to the output of the hyper_torso
LinearFlatOutput(p, shapes_flat, index) ==
  LET hyper_index == HyperTorso(p, index)
  IN  List([k \in 1..Len(shapes_flat) |-> [mod |-> shapes_flat[k].mod, name |-> shapes_flat[k].name, val |-> LinearCall(p.final[k], hyper_index)]])

\* jax.tree_multimap(jnp.reshape, flat_output, base_shapes)
ReshapeOK(flat_output, shapes) == \A k \in 1..Len(shapes) : CanReshape(flat_output[k].val, shapes[k].val)

\* a mutant of ReshapeAll: the flat output is passed on as it is
ReshapeAllSkipped(flat_output, shapes) == flat_output

ReshapeAll(flat_output, shapes) == List([k \in 1..Len(shapes) |-> [mod |-> flat_output[k].mod, name |-> flat_output[k].name, val |-> Reshape(flat_output[k].val, shapes[k].val)]])

\* a mutant of Extra: the scaled tree is reported as the hypermodel's output
ExtraScaledTwice(generated_params, generated_params_scaled) == [hyper_net_out |-> generated_params_scaled, base_net_params |-> generated_params_scaled]

\* the extra of the OutputWithPrior hyper_fn returns
Extra(generated_params, generated_params_scaled) == [hyper_net_out |-> generated_params, base_net_params |-> generated_params_scaled]

\* the tail of hyper_fn, from the flat output on
HyperFnTail(c, shapes, flat_output, inputs) ==
  IF ~ReshapeOK(flat_output, shapes) THEN Failed("TypeError")
  ELSE LET generated_params == ReshapeAll(flat_output, shapes)
       IN  IF c.scale /\ ~HkMapOK(generated_params) THEN Failed("IndexError")
           ELSE LET generated_params_scaled == IF c.scale THEN HkMap(generated_params) ELSE generated_params
                    out == BaseApply(generated_params_scaled, inputs)
                IN  [status |-> "ok",
                     flat_output |-> flat_output,
                     generated_params |-> generated_params,
                     generated_params_scaled |-> generated_params_scaled,
                     out |-> IF c.return_generated_params
                             THEN OutputWithPrior(BaseApply(generated_params_scaled, inputs), Extra(generated_params, generated_params_scaled))
                             ELSE [type |-> "Array", value |-> out]]

\* hyper_fn(inputs, index) run with the hypermodel parameters p
HyperFn(c, shapes, shapes_flat, p, inputs, index) ==
  IF c.diagonal_linear_hyper
  THEN IF ~AssertShape(index, shapes_flat) THEN Failed("AssertionError")
       ELSE IF ~DiagonalLinearOK(p.diagonal_linear, index) THEN Failed("TypeError")
       ELSE LET flat_output == DiagonalFlatOutput(p, shapes, shapes_flat, index)
            IN  HyperFnTail(c, shapes, flat_output, inputs)
  ELSE IF ~HyperTorsoOK(p, index) THEN Failed("TypeError")
       ELSE IF ~(\A k \in 1..Len(shapes_flat) : LinearOK(p.final[k], HyperTorso(p, index))) THEN Failed("TypeError")
       ELSE LET flat_output == LinearFlatOutput(p, shapes_flat, index)
            IN  HyperFnTail(c, shapes, flat_output, inputs)

(***************************************************************************)
(* MLPHypermodel: the epistemic network made of hyper_fn.                  *)
(***************************************************************************)
\* the arguments of MLPHypermodel / hypermodel_module; index_dim is the
\* length of the index the indexer samples
HyperConfigs ==
  {c \in [net : BaseNets, diagonal_linear_hyper : BOOLEAN, return_generated_params : BOOLEAN, scale : BOOLEAN,
          index_dim : {1, MaxIndexDim, MaxIndexDim + 1}, hidden_sizes : {<<>>, <<1>>}] :
     /\ c.diagonal_linear_hyper => c.hidden_sizes = <<>> /\ c.index_dim # 1
     /\ c.index_dim = MaxIndexDim + 1 => c.diagonal_linear_hyper}

\* the length of the index the indexer samples: with diagonal_linear_hyper the
\* largest choice stands for the total size of the base parameters
IndexDim(c) == IF c.index_dim = MaxIndexDim + 1 THEN TotalSize(BaseShapesFlat(c.net)) ELSE c.index_dim

NoParams == [initialized |-> FALSE, diagonal_linear |-> [softplus_w |-> <<>>, b |-> <<>>], torso |-> <<>>, final |-> <<>>]

\* the parameters hyper_fn creates when run on an index of length d
HyperParams(c, shapes_flat, d, seed) ==
  IF c.diagonal_linear_hyper
  THEN [initialized |-> TRUE, diagonal_linear |-> DiagonalParams(seed, d), torso |-> <<>>, final |-> <<>>]
  ELSE LET hs == c.hidden_sizes
           h  == IF hs = <<>> THEN d ELSE hs[Len(hs)]
       IN  [initialized |-> TRUE,
            diagonal_linear |-> [softplus_w |-> <<>>, b |-> <<>>],
            torso |-> List([i \in 1..Len(hs) |-> LinearParams(seed, 7 + i, IF i = 1 THEN d ELSE hs[i - 1], hs[i])]),
            final |-> List([k \in 1..Len(shapes_flat) |-> LinearParams(seed, k, h, shapes_flat[k].val)])]

\* an index array of the given shape
IndexArray(shape, id) == Tensor(shape, [j \in 1..Prod(shape) |-> ((id + j) % 3) - 1])

\* the index arrays passed to apply: of the indexer's shape, and of others
Indices(c) == {IndexArray(<<IndexDim(c)>>, id) : id \in IndexIds} \cup {IndexArray(shape, 1) : shape \in {<<IndexDim(c) + 1>>, <<1, IndexDim(c)>>, <<>>}}

NoCall == [op |-> "none", params |-> NoParams, inputs |-> "", index |-> Tensor(<<>>, <<0>>), res |-> Failed("none")]

\* a mutant of Call: the parameters generated by the previous call are kept
\* and used again
CallCached(p, inputs, index) == IF last_call.res.status = "ok" THEN last_call.res ELSE HyperFn(cfg, base_shapes, base_shapes_flat, p, inputs, index)

\* one run of hyper_fn on the module's state
Call(p, inputs, index) == HyperFn(cfg, base_shapes, base_shapes_flat, p, inputs, index)

\* the components that are not built in a behaviour
HyperUnbuilt == cfg = "unbuilt" /\ base_params = <<>> /\ base_shapes = <<>> /\ base_shapes_flat = <<>> /\ params = NoParams /\ first_call = NoCall /\ between = FALSE /\ last_call = NoCall

PriorUnbuilt == prior = "unbuilt" /\ pparams = <<>> /\ pcall = "none"

CompUnbuilt == comp = "unbuilt" /\ cparams = NoParams /\ papply = "none"

Unbuilt == PriorUnbuilt /\ CompUnbuilt

\* hypermodel_module(...): the base shapes are computed from dummy_input
Construct(configs) ==
  /\ cfg \in configs
  /\ base_params = BaseParams(cfg.net)
  /\ base_shapes = BaseShapes(cfg.net)
  /\ base_shapes_flat = BaseShapesFlat(cfg.net)
  /\ params = NoParams
  /\ first_call = NoCall
  /\ between = FALSE
  /\ last_call = NoCall

InitHyper == Construct(HyperConfigs) /\ Unbuilt

\* enn.init(rng, dummy_input, index): hyper_fn run on the indexer's index,
\* creating the parameters
EnnInit(seed) ==
  LET index == IndexArray(<<IndexDim(cfg)>>, 1)
      p     == HyperParams(cfg, base_shapes_flat, IndexDim(cfg), seed)
      res   == Call(p, "x1", index)
  IN  /\ params' = IF res.status = "ok" THEN p ELSE params
      /\ last_call' = [op |-> "init", params |-> p, inputs |-> "x1", index |-> index, res |-> res]
      /\ between' = (between \/ first_call.op # "none")
      /\ UNCHANGED <<cfg, base_params, base_shapes, base_shapes_flat, first_call, prior_vars, comp_vars>>

\* enn.apply(params, inputs, index)
EnnApply(inputs, index) ==
  /\ params.initialized
  /\ last_call' = [op |-> "apply", params |-> params, inputs |-> inputs, index |-> index, res |-> Call(params, inputs, index)]
  /\ between' = (between \/ (first_call.op # "none" /\ <<params, inputs, index>> # <<first_call.params, first_call.inputs, first_call.index>>))
  /\ UNCHANGED <<cfg, base_params, base_shapes, base_shapes_flat, params, first_call, prior_vars, comp_vars>>

\* a training step: the caller replaces the trainable parameters
Update ==
  /\ params.initialized
  /\ params' = HyperParams(cfg, base_shapes_flat, IndexDim(cfg), 3)
  /\ params' # params
  /\ last_call' = NoCall
  /\ UNCHANGED <<cfg, base_params, base_shapes, base_shapes_flat, first_call, between, prior_vars, comp_vars>>

NextHyper ==
  \/ \E seed \in Seeds : EnnInit(seed)
  \/ \E inputs \in Inputs, index \in Indices(cfg) : EnnApply(inputs, index)
  \/ Update

SpecHyper == InitHyper /\ [][NextHyper]_vars

(***************************************************************************)
(* HyperLinear and PriorMLPIndependentLayers.                              *)
(***************************************************************************)
\* jnp.arange(n)
Arange(n) == List([i \in 1..n |-> i - 1])

\* a mutant of ArraySplit: every section but the last takes one element more,
\* so that neighbouring sections overlap
ArraySplitOverlapping(a, n) ==
  LET each   == Len(a) \div n
      extras == Len(a) % n
      start(k) == (k - 1) * each + (IF k - 1 < extras THEN k - 1 ELSE extras)
  IN  List([k \in 1..n |-> SubSeq(a, start(k) + 1, IF start(k + 1) < Len(a) THEN start(k + 1) + 1 ELSE Len(a))])

\* jnp.array_split(a, n) for n >= 1: n sections, the first Len(a) % n of
\* Len(a) \div n + 1 elements and the others of Len(a) \div n
ArraySplit(a, n) ==
  LET each   == Len(a) \div n
      extras == Len(a) % n
      start(k) == (k - 1) * each + (IF k - 1 < extras THEN k - 1 ELSE extras)
  IN  List([k \in 1..n |-> SubSeq(a, start(k) + 1, start(k + 1))])

\* a mutant of LayersIndices: the index is split also when it is shorter than
\* the number of layers
LayersIndicesAlwaysSplit(index_dim, num_layers) == ArraySplit(Arange(index_dim), num_layers)

\* PriorMLPIndependentLayers.__init__: self._layers_indices
LayersIndices(index_dim, num_layers) ==
  IF index_dim < num_layers
  THEN List([k \in 1..num_layers |-> Arange(index_dim)])
  ELSE ArraySplit(Arange(index_dim), num_layers)

\* PriorMLPIndependentLayers.__init__; jnp.array_split raises ValueError when
\* asked for no section
PriorModule(output_sizes, index_dim) ==
  LET num_layers == Len(output_sizes)
  IN  IF ~(index_dim < num_layers) /\ num_layers = 0
      THEN [status |-> "ValueError", output_sizes |-> output_sizes, num_layers |-> num_layers, index_dim |-> index_dim, layers_indices |-> <<>>, layers |-> <<>>]
      ELSE LET layers_indices == LayersIndices(index_dim, num_layers)
           IN  [status |-> "ok", output_sizes |-> output_sizes, num_layers |-> num_layers, index_dim |-> index_dim,
                layers_indices |-> layers_indices,
                layers |-> List([i \in 1..num_layers |-> [output_size |-> output_sizes[i], index_dim_per_layer |-> Len(layers_indices[i])]])]

\* PriorMLPIndependentLayers.__call__: index_layers
IndexLayers(m, z) ==
  IF m.index_dim < m.num_layers
  THEN List([k \in 1..m.num_layers |-> z])
  ELSE ArraySplit(z, m.num_layers)

\* the parameters HyperLinear creates: w [output_size, hidden_size,
\* index_dim_per_layer] and b [output_size, index_dim_per_layer]
HyperLinearParams(layer, hidden_size, seed) == [w |-> [shape |-> <<layer.output_size, hidden_size, layer.index_dim_per_layer>>, seed |-> seed], b |-> [shape |-> <<layer.output_size, layer.index_dim_per_layer>>, seed |-> seed]]

\* the einsums 'ohi,i->oh', 'oi,i->o' and 'oh,bh->bo' need z of the length the
\* parameters were made for and x of their hidden size
HyperLinearOK(p, x, z) == p.w.shape[3] = Len(z) /\ p.b.shape[2] = Len(z) /\ p.w.shape[2] = x.width

\* HyperLinear.__call__: an array of width output_size computed from the
\* parameters, x and z
HyperLinearCall(p, x, z) == [width |-> p.w.shape[1], term |-> [fn |-> "HyperLinear", w |-> p.w, b |-> p.b, x |-> x.term, z |-> z]]

PriorRelu(x) == [width |-> x.width, term |-> [fn |-> "relu", x |-> x.term]]

\* the loop of PriorMLPIndependentLayers.__call__ from layer i on
RECURSIVE PriorLoop(_, _, _, _, _)
PriorLoop(m, ps, index_layers, out, i) ==
  IF i > m.num_layers THEN [status |-> "ok", out |-> out]
  ELSE IF ~HyperLinearOK(ps[i], out, index_layers[i]) THEN [status |-> "TypeError", out |-> out]
  ELSE LET y == HyperLinearCall(ps[i], out, index_layers[i])
       IN  PriorLoop(m, ps, index_layers, IF i < m.num_layers THEN PriorRelu(y) ELSE y, i + 1)

\* PriorMLPIndependentLayers.__call__ with the parameters ps
PriorCall(m, ps, x, z) ==
  LET index_layers == IndexLayers(m, z)
      run == PriorLoop(m, ps, index_layers, x, 1)
  IN  [status |-> run.status, index_layers |-> index_layers, out |-> run.out]

\* the parameters made when the module is first run on x (hk.transform's init)
PriorParams(m, x, seed) == List([i \in 1..m.num_layers |-> HyperLinearParams(m.layers[i], IF i = 1 THEN x.width ELSE m.output_sizes[i - 1], seed)])

\* an input x and an index z
InputArray(name, width) == [width |-> width, term |-> [fn |-> "input", name |-> name]]

ZArray(len, id) == List([i \in 1..len |-> 10 * id + i])

PriorArgs == [output_sizes : UNION {[1..n -> 1..MaxDim] : n \in 0..MaxLayers}, index_dim : 0..MaxPriorIndexDim, in0 : 1..MaxDim]

NoPriorCall == [op |-> "none", x |-> InputArray("", 0), z |-> <<>>, res |-> [status |-> "none", index_layers |-> <<>>, out |-> InputArray("", 0)]]

InitPrior ==
  /\ \E a \in PriorArgs : prior = [in0 |-> a.in0, module |-> PriorModule(a.output_sizes, a.index_dim)]
  /\ pparams = <<>>
  /\ pcall = NoPriorCall
  /\ HyperUnbuilt
  /\ CompUnbuilt

\* prior_enn.init(rng, dummy_input, index): the module run on an index of
\* length index_dim
PriorEnnInit(seed) ==
  /\ prior.module.status = "ok"
  /\ pparams' = PriorParams(prior.module, InputArray("x1", prior.in0), seed)
  /\ pcall' = [op |-> "init", x |-> InputArray("x1", prior.in0), z |-> ZArray(prior.module.index_dim, 1), res |-> PriorCall(prior.module, pparams', InputArray("x1", prior.in0), ZArray(prior.module.index_dim, 1))]
  /\ UNCHANGED <<prior, hyper_vars, comp_vars>>

\* prior_enn.apply(params, x, z)
PriorEnnApply(x, z) ==
  /\ prior.module.status = "ok"
  /\ pparams # <<>>
  /\ pcall' = [op |-> "apply", x |-> x, z |-> z, res |-> PriorCall(prior.module, pparams, x, z)]
  /\ UNCHANGED <<prior, pparams, hyper_vars, comp_vars>>

NextPrior ==
  \/ \E seed \in Seeds : PriorEnnInit(seed)
  \/ \E name \in Inputs, len \in 0..(MaxPriorIndexDim + 1), id \in IndexIds : PriorEnnApply(InputArray(name, prior.in0), ZArray(len, id))

SpecPrior == InitPrior /\ [][NextPrior]_vars

(***************************************************************************)
(* Networks with an additive prior.  An epistemic network is held as the   *)
(* record of what its apply, init and indexer close over.                  *)
(***************************************************************************)
\* MLPHypermodel.__init__: the network of hypermodel_module(transformed_base,
\* dummy_input, hyper_torso, ...) and the indexer
MLPHypermodel(net, index_dim, hidden_sizes, return_generated_params, scale) ==
  [cfg |-> [net |-> net, diagonal_linear_hyper |-> FALSE, return_generated_params |-> return_generated_params, scale |-> scale, index_dim |-> index_dim, hidden_sizes |-> hidden_sizes],
   base_shapes |-> BaseShapes(net),
   base_shapes_flat |-> BaseShapesFlat(net),
   indexer |-> index_dim]

\* enn.apply and enn.init of an MLPHypermodel
HypermodelApply(enn, p, x, z) == HyperFn(enn.cfg, enn.base_shapes, enn.base_shapes_flat, p, x, z)

HypermodelInit(enn, seed) == HyperParams(enn.cfg, enn.base_shapes_flat, enn.indexer, seed)

\* hk.nets.MLP(output_sizes) on an input of width in0, as a base network
MLPNet(in0, width, depth) == [in0 |-> in0, width |-> width, kind |-> "linear", depth |-> depth]

\* symbolic arithmetic on network outputs
Times(scale, a) == [fn |-> "times", scale |-> scale, a |-> a]

Plus(a, b) == [fn |-> "plus", a |-> a, b |-> b]

\* utils.parse_net_output: the predictions of an OutputWithPrior (its train,
\* the prior being zero), or the array itself
ParseNetOutput(out) == IF out.type = "OutputWithPrior" THEN out.train ELSE out.value

\* priors.convert_enn_to_prior_fn(enn, dummy_input, key): the parameters are
\* drawn once, and prior_fn applies the network to them
ConvertEnnToPriorFn(enn, seed) == [kind |-> "enn", enn |-> enn, prior_params |-> HypermodelInit(enn, seed)]

\* a mutant of PriorFnIndependentLayers: the prior is run on parameters drawn
\* again after the trainable parameters have been initialised
PriorFnIndependentLayersRedrawn(f, name, z) ==
  LET x == InputArray(name, f.in0)
      r == PriorCall(f.module, PriorParams(f.module, x, IF cparams.initialized THEN 9 ELSE f.seed), x, z.data)
  IN  [status |-> r.status, value |-> r.out.term]

\* MLPHypermodelPriorIndependentLayers.__init__: prior_fn(x, z) is
\* prior_enn.apply(prior_params, x, z)
PriorFnIndependentLayers(f, name, z) ==
  LET x == InputArray(name, f.in0)
      r == PriorCall(f.module, f.prior_params, x, z.data)
  IN  [status |-> r.status, value |-> r.out.term]

\* the prior_fn of convert_enn_to_prior_fn
PriorFnOfEnn(f, name, z) ==
  LET r == HypermodelApply(f.enn, f.prior_params, name, z)
  IN  [status |-> r.status, value |-> IF r.status = "ok" THEN ParseNetOutput(r.out) ELSE r.out]

PriorFn(f, name, z) == IF f.kind = "enn" THEN PriorFnOfEnn(f, name, z) ELSE PriorFnIndependentLayers(f, name, z)

\* priors.EnnWithAdditivePrior(enn, prior_fn, prior_scale)
EnnWithAdditivePrior(enn, prior_fn, prior_scale) == [enn |-> enn, prior_fn |-> prior_fn, prior_scale |-> prior_scale, indexer |-> enn.indexer]

\* EnnWithAdditivePrior.apply: the output carries the network's output as
\* train and prior_scale * prior_fn(x, z) as prior; its predictions are their sum
AdditiveApply(e, p, x, z) ==
  LET net_out == HypermodelApply(e.enn, p, x, z)
      prior_out == PriorFn(e.prior_fn, x, z)
  IN  IF net_out.status # "ok" THEN [status |-> net_out.status, train |-> net_out.out, prior |-> net_out.out, preds |-> net_out.out]
      ELSE IF prior_out.status # "ok" THEN [status |-> prior_out.status, train |-> net_out.out, prior |-> net_out.out, preds |-> net_out.out]
      ELSE LET train == ParseNetOutput(net_out.out)
               pr    == Times(e.prior_scale, prior_out.value)
           IN  [status |-> "ok", train |-> train, prior |-> pr, preds |-> Plus(train, pr)]

\* EnnWithAdditivePrior.init is enn.init
AdditiveInit(e, seed) == HypermodelInit(e.enn, seed)

\* the arguments of the two classes; dummy_input has width 1, the base MLP one
\* layer and the prior MLP `prior_depth` layers of the same width
PriorScales == {1, 3}

ComposeArgs == [kind : {"hypermodel_prior", "independent_layers"}, width : 1..MaxDim, prior_depth : 1..MaxLayers, index_dim : {1, MaxIndexDim}, return_generated_params : BOOLEAN, scale : {TRUE}, prior_scale : PriorScales, seed : Seeds]

\* a mutant of MLPHypermodelWithHypermodelPrior: prior_scale is not passed on
MLPHypermodelWithHypermodelPriorUnscaled(a) ==
  LET prior_enn == MLPHypermodel(MLPNet(1, a.width, a.prior_depth), a.index_dim, <<>>, a.return_generated_params, a.scale)
      prior_fn == ConvertEnnToPriorFn(prior_enn, a.seed)
      enn_wo_prior == MLPHypermodel(MLPNet(1, a.width, 1), a.index_dim, <<>>, a.return_generated_params, a.scale)
  IN  EnnWithAdditivePrior(enn_wo_prior, prior_fn, 1)

\* MLPHypermodelWithHypermodelPrior.__init__
MLPHypermodelWithHypermodelPrior(a) ==
  LET prior_enn == MLPHypermodel(MLPNet(1, a.width, a.prior_depth), a.index_dim, <<>>, a.return_generated_params, a.scale)
      prior_fn == ConvertEnnToPriorFn(prior_enn, a.seed)
      enn_wo_prior == MLPHypermodel(MLPNet(1, a.width, 1), a.index_dim, <<>>, a.return_generated_params, a.scale)
  IN  EnnWithAdditivePrior(enn_wo_prior, prior_fn, a.prior_scale)

\* MLPHypermodelPriorIndependentLayers.__init__ (problem_temperature None)
MLPHypermodelPriorIndependentLayers(a) ==
  LET module == PriorModule([i \in 1..a.prior_depth |-> a.width], a.index_dim)
      prior_params == PriorParams(module, InputArray("x1", 1), a.seed)
      prior_fn == [kind |-> "independent_layers", module |-> module, in0 |-> 1, seed |-> a.seed, prior_params |-> prior_params]
      enn_wo_prior == MLPHypermodel(MLPNet(1, a.width, 1), a.index_dim, <<>>, a.return_generated_params, a.scale)
  IN  EnnWithAdditivePrior(enn_wo_prior, prior_fn, a.prior_scale)

NoApply == [op |-> "none", params |-> NoParams, x |-> "", z |-> Tensor(<<>>, <<0>>), seed |-> 0, res |-> [status |-> "none"]]

InitCompose ==
  /\ \E a \in ComposeArgs : comp = [args |-> a, enn |-> IF a.kind = "hypermodel_prior" THEN MLPHypermodelWithHypermodelPrior(a) ELSE MLPHypermodelPriorIndependentLayers(a)]
  /\ cparams = NoParams
  /\ papply = NoApply
  /\ HyperUnbuilt
  /\ PriorUnbuilt

\* enn.init(rng, dummy_input, index) of the composed network
ComposeInit(seed) ==
  /\ cparams' = AdditiveInit(comp.enn, seed)
  /\ papply' = [op |-> "init", params |-> cparams', x |-> "x1", z |-> IndexArray(<<comp.enn.indexer>>, 1), seed |-> seed, res |-> [status |-> "ok"]]
  /\ UNCHANGED <<comp, hyper_vars, prior_vars>>

\* enn.apply(params, x, z) of the composed network
ComposeApply(x, z) ==
  /\ cparams.initialized
  /\ papply' = [op |-> "apply", params |-> cparams, x |-> x, z |-> z, seed |-> 0, res |-> AdditiveApply(comp.enn, cparams, x, z)]
  /\ UNCHANGED <<comp, cparams, hyper_vars, prior_vars>>

\* a training step on the parameters passed to apply
ComposeUpdate ==
  /\ cparams.initialized
  /\ cparams' = AdditiveInit(comp.enn, 3)
  /\ cparams' # cparams
  /\ papply' = NoApply
  /\ UNCHANGED <<comp, hyper_vars, prior_vars>>

NextCompose ==
  \/ \E seed \in Seeds : ComposeInit(seed)
  \/ \E x \in Inputs, id \in IndexIds : ComposeApply(x, IndexArray(<<comp.enn.indexer>>, id))
  \/ ComposeUpdate

SpecCompose == InitCompose /\ [][NextCompose]_vars

(***************************************************************************)
(* The specification that follows pairs of calls: the environment picks    *)
(* one call of apply to remember, and later calls are compared with it.    *)
(***************************************************************************)
CallsConfigs ==
  {c \in HyperConfigs :
     /\ c.return_generated_params /\ c.scale /\ c.hidden_sizes = <<>>
     /\ c.net.depth = 1 /\ c.net.in0 = c.net.width
     /\ c.diagonal_linear_hyper => c.index_dim = MaxIndexDim + 1}

InitCalls == Construct(CallsConfigs) /\ Unbuilt

\* the observer remembers the call just made
Remember ==
  /\ first_call.op = "none"
  /\ last_call.op = "apply"
  /\ first_call' = last_call
  /\ UNCHANGED <<cfg, base_params, base_shapes, base_shapes_flat, params, between, last_call, prior_vars, comp_vars>>

NextCalls == NextHyper \/ Remember

SpecCalls == InitCalls /\ [][NextCalls]_vars

(***************************************************************************)
(* Claims about hypermodel_module.                                         *)
(***************************************************************************)
SameKey(a, b) == a.params = b.params /\ a.inputs = b.inputs /\ a.index = b.index

Ran == last_call.op \in {"init", "apply"}

\* the parameters the base network was applied to, read off the output
PassedToBase(out) == IF out.type = "Array" THEN out.value.params ELSE out.train.params

\* C1: whenever hyper_fn accepts an index, in the linear and in the diagonal
\* branch and with scale True or False, the generated tree and the tree passed
\* to the base network have the module and parameter names of base_params, in
\* the same order, and every leaf has the shape of the base leaf.
C1_GeneratedMatchesBase ==
  (Ran /\ last_call.res.status = "ok") =>
     \A tree \in {last_call.res.generated_params, last_call.res.generated_params_scaled, PassedToBase(last_call.res.out)} :
        /\ TreeStructure(tree) = TreeStructure(base_params)
        /\ \A k \in 1..Len(base_params) : tree[k].val.shape = base_params[k].val.shape /\ Len(tree[k].val.data) = Prod(base_params[k].val.shape)

C1_Witness ==
  /\ last_call.op = "apply" /\ last_call.res.status = "ok"
  /\ cfg.diagonal_linear_hyper /\ cfg.scale
  /\ cfg.net.kind = "conv1d" /\ cfg.net.depth = MaxLayers /\ cfg.net.width = MaxDim

\* C3: with scale True every generated weight (leaf named 'w') reaches the
\* base network divided by sqrt(fan_in) of its layer and every other leaf
\* reaches it unchanged; with scale False every leaf reaches it unchanged.
C3_WeightsScaledByFanIn ==
  (Ran /\ last_call.res.status = "ok") =>
     LET generated == last_call.res.generated_params
         passed    == PassedToBase(last_call.res.out)
     IN  IF cfg.scale
         THEN \A k \in 1..Len(generated) :
                 IF generated[k].name = "w"
                 THEN passed[k].val = [shape |-> generated[k].val.shape, data |-> generated[k].val.data, rsq |-> generated[k].val.rsq * FanIn(generated[k].val.shape)]
                 ELSE passed[k].val = generated[k].val
         ELSE passed = generated

\* the sizes of the base leaves, in leaf order, and where each starts in the
\* flattened parameters
LeafSizes == List([k \in 1..Len(base_params) |-> Prod(base_params[k].val.shape)])

LeafOffset(k) == SumTo(LeafSizes, k - 1)

\* C7: with diagonal_linear_hyper, hyper_fn accepts exactly the one-dimensional
\* indices whose length is the total number of base parameters and raises an
\* assertion error, generating nothing, for any other; for an accepted index
\* leaf k receives the LeafSizes[k] consecutive entries of the DiagonalLinear
\* output that start at LeafOffset(k), so that entry i of the index feeds one
\* parameter only.
C7_DiagonalSplit ==
  (Ran /\ cfg.diagonal_linear_hyper) =>
     LET index == last_call.index
         res   == last_call.res
         p     == last_call.params.diagonal_linear
     IN  /\ res.status = "ok" <=> index.shape = <<SumSeq(LeafSizes)>>
         /\ res.status # "ok" => res.status = "AssertionError" /\ res.flat_output = <<>> /\ res.generated_params = <<>>
         /\ res.status = "ok" =>
              /\ Len(res.flat_output) = Len(base_params)
              /\ \A k \in 1..Len(base_params) :
                    /\ res.flat_output[k].val.shape = <<LeafSizes[k]>>
                    /\ Len(res.flat_output[k].val.data) = LeafSizes[k]
                    /\ \A j \in 1..LeafSizes[k] :
                          /\ res.flat_output[k].val.data[j] = index.data[LeafOffset(k) + j] * p.softplus_w[LeafOffset(k) + j] + p.b[LeafOffset(k) + j]
                          /\ res.generated_params[k].val.data[j] = res.flat_output[k].val.data[j]
              /\ LeafOffset(Len(base_params) + 1) = Len(index.data)

C7_Witness ==
  /\ last_call.op = "apply" /\ cfg.diagonal_linear_hyper
  /\ last_call.res.status = "ok"
  /\ Len(base_params) > 2 /\ cfg.net.width > 1
  /\ \E i \in 1..Len(last_call.index.data) : last_call.index.data[i] # 0

\* C8: with return_generated_params the result is an OutputWithPrior whose
\* train is what hyper_fn returns without the flag, whose
\* extra['hyper_net_out'] is the generated tree before scaling and whose
\* extra['base_net_params'] is the tree the base network was applied to (the
\* same tree when scale is False); without the flag the result is the bare
\* output of the base network.
C8_ReturnGeneratedParams ==
  (Ran /\ last_call.res.status = "ok") =>
     LET res   == last_call.res
         plain == HyperFn([cfg EXCEPT !.return_generated_params = FALSE], base_shapes, base_shapes_flat, last_call.params, last_call.inputs, last_call.index)
     IN  /\ plain.out.type = "Array" /\ DOMAIN plain.out = {"type", "value"}
         /\ plain.out.value = BaseApply(plain.generated_params_scaled, last_call.inputs)
         /\ IF cfg.return_generated_params
            THEN /\ res.out.type = "OutputWithPrior"
                 /\ res.out.train = plain.out.value
                 /\ res.out.extra.hyper_net_out = res.generated_params
                 /\ res.out.extra.base_net_params = res.out.train.params
                 /\ res.out.extra.base_net_params = (IF cfg.scale THEN HkMap(res.out.extra.hyper_net_out) ELSE res.out.extra.hyper_net_out)
                 /\ ~cfg.scale => res.out.extra.base_net_params = res.out.extra.hyper_net_out
            ELSE res.out = plain.out

C8_Witness ==
  /\ last_call.op = "apply" /\ last_call.res.status = "ok"
  /\ cfg.return_generated_params /\ cfg.scale
  /\ last_call.res.out.extra.hyper_net_out # last_call.res.out.extra.base_net_params

\* C6: the base shapes hyper_fn uses are the ones computed at construction,
\* and a call that repeats the params, inputs and index of a remembered call
\* returns what that call returned, whatever was called in between.
C6_CallsAreRepeatable ==
  /\ base_shapes = BaseShapes(cfg.net)
  /\ base_shapes_flat = BaseShapesFlat(cfg.net)
  /\ (first_call.op = "apply" /\ Ran /\ SameKey(first_call, last_call)) => last_call.res = first_call.res

C6_Witness ==
  /\ first_call.op = "apply" /\ first_call.res.status = "ok"
  /\ between
  /\ last_call.op = "apply" /\ SameKey(first_call, last_call)
  /\ last_call.res.status = "ok"

(***************************************************************************)
(* Claims about PriorMLPIndependentLayers.                                 *)
(***************************************************************************)
\* the elements of a list; the entries of an index made by ZArray are all
\* different, so the elements of a slice of it stand for its positions
Elems(q) == {q[i] : i \in 1..Len(q)}

PairwiseDisjoint(slices) == \A i, j \in 1..Len(slices) : i # j => Elems(slices[i]) \cap Elems(slices[j]) = {}

PriorRan == pcall.op \in {"init", "apply"}

\* C2 as stated: for every index_dim and output_sizes no two layers share an
\* index position, neither in _layers_indices nor in the index_layers of a
\* call.
C2_SlicesAlwaysDisjoint ==
  /\ PairwiseDisjoint(prior.module.layers_indices)
  /\ PriorRan => PairwiseDisjoint(pcall.res.index_layers)

\* C2 as amended: when index_dim >= num_layers no two layers share an index
\* position, neither in _layers_indices nor in the index_layers of a call; when
\* index_dim < num_layers every layer is given every position.
C2_SlicesDisjointWhenSplit ==
  LET m == prior.module
  IN  m.status = "ok" =>
        IF m.index_dim >= m.num_layers
        THEN /\ PairwiseDisjoint(m.layers_indices)
             /\ PriorRan => PairwiseDisjoint(pcall.res.index_layers)
        ELSE /\ \A i \in 1..m.num_layers : m.layers_indices[i] = Arange(m.index_dim)
             /\ PriorRan => \A i \in 1..m.num_layers : pcall.res.index_layers[i] = pcall.z

C2_Witness ==
  /\ prior.module.status = "ok"
  /\ prior.module.num_layers >= 2
  /\ prior.module.index_dim > prior.module.num_layers
  /\ pcall.op = "apply" /\ pcall.res.status = "ok"
  /\ \A i \in 1..prior.module.num_layers : pcall.res.index_layers[i] # <<>>

RECURSIVE Concat(_, _)
Concat(slices, n) == IF n = 0 THEN <<>> ELSE Concat(slices, n - 1) \o slices[n]

\* C9: for index_dim >= 1, non-empty output_sizes and z of length index_dim,
\* the slice of z given to layer i has the length index_dim_per_layer of layer
\* i (so every HyperLinear accepts its slice); when index_dim >= num_layers the
\* slices are non-empty, follow each other in index order, cover z exactly
\* once and differ in length by at most one; when index_dim < num_layers every
\* layer is given the whole of z.
C9_SliceLengths ==
  LET m == prior.module
  IN  (PriorRan /\ m.index_dim >= 1 /\ m.num_layers >= 1 /\ Len(pcall.z) = m.index_dim) =>
        LET slices == pcall.res.index_layers
        IN  /\ Len(slices) = m.num_layers /\ Len(m.layers) = m.num_layers
            /\ \A i \in 1..m.num_layers : Len(slices[i]) = m.layers[i].index_dim_per_layer /\ Len(slices[i]) = pparams[i].w.shape[3]
            /\ pcall.res.status = "ok"
            /\ IF m.index_dim >= m.num_layers
               THEN /\ \A i \in 1..m.num_layers : slices[i] # <<>>
                    /\ Concat(slices, m.num_layers) = pcall.z
                    /\ \A i, j \in 1..m.num_layers : Len(slices[i]) - Len(slices[j]) \in {-1, 0, 1}
               ELSE \A i \in 1..m.num_layers : slices[i] = pcall.z

C9_Witness ==
  /\ pcall.op = "apply" /\ pcall.res.status = "ok"
  /\ Len(pcall.z) = prior.module.index_dim
  /\ prior.module.num_layers >= 2
  /\ prior.module.index_dim > prior.module.num_layers
  /\ prior.module.index_dim % prior.module.num_layers # 0

(***************************************************************************)
(* Claims about the networks with an additive prior.                       *)
(***************************************************************************)
\* the prior-free hypermodel the constructors build from their arguments
EnnWoPrior(a) == MLPHypermodel(MLPNet(1, a.width, 1), a.index_dim, <<>>, a.return_generated_params, a.scale)

\* the prior parameters the constructors compute from their arguments
ConstructedPriorParams(a) ==
  IF a.kind = "hypermodel_prior"
  THEN HypermodelInit(MLPHypermodel(MLPNet(1, a.width, a.prior_depth), a.index_dim, <<>>, a.return_generated_params, a.scale), a.seed)
  ELSE PriorParams(PriorModule([i \in 1..a.prior_depth |-> a.width], a.index_dim), InputArray("x1", 1), a.seed)

\* the prior network run on the constructed parameters
ConstructedPrior(a, x, z) ==
  IF a.kind = "hypermodel_prior"
  THEN ParseNetOutput(HypermodelApply(MLPHypermodel(MLPNet(1, a.width, a.prior_depth), a.index_dim, <<>>, a.return_generated_params, a.scale), ConstructedPriorParams(a), x, z).out)
  ELSE PriorCall(PriorModule([i \in 1..a.prior_depth |-> a.width], a.index_dim), ConstructedPriorParams(a), InputArray(x, 1), z.data).out.term

\* C4: after any init, apply and update of the trainable parameters, the
\* parameters prior_fn uses are the ones the constructor computed; the tree
\* init returns is the tree of the prior-free hypermodel (one linear layer per
\* leaf of the base MLP, none of the prior's); and the prior of an apply is
\* prior_scale times the prior network run on the constructed parameters, x
\* and z, whatever params was passed.
C4_PriorParamsFixed ==
  LET a  == comp.args
      wo == EnnWoPrior(a)
  IN  /\ comp.enn.prior_fn.prior_params = ConstructedPriorParams(a)
      /\ cparams.initialized =>
           /\ DOMAIN cparams = DOMAIN NoParams
           /\ Len(cparams.final) = Len(wo.base_shapes_flat)
           /\ \A k \in 1..Len(cparams.final) : cparams.final[k].w.shape = <<a.index_dim, wo.base_shapes_flat[k].val>>
      /\ (papply.op = "apply" /\ papply.res.status = "ok") => papply.res.prior = Times(a.prior_scale, ConstructedPrior(a, papply.x, papply.z))

C4_Witness ==
  /\ comp.args.kind = "independent_layers" /\ comp.args.prior_depth > 1
  /\ papply.op = "apply" /\ papply.res.status = "ok"
  /\ papply.params = AdditiveInit(comp.enn, 3)

\* C5: an apply of the composed network runs the prior-free hypermodel on
\* params, x, z and prior_fn on the same x, z; its train is the former, its
\* prior is prior_scale times the latter and its prediction is their sum; its
\* init and its indexer are those of the prior-free hypermodel.
C5_AdditivePrior ==
  LET a  == comp.args
      wo == EnnWoPrior(a)
  IN  /\ comp.enn.indexer = wo.indexer
      /\ papply.op = "init" => papply.params = HypermodelInit(wo, papply.seed)
      /\ (papply.op = "apply" /\ papply.res.status = "ok") =>
           /\ HypermodelApply(wo, papply.params, papply.x, papply.z).status = "ok"
           /\ papply.res.train = ParseNetOutput(HypermodelApply(wo, papply.params, papply.x, papply.z).out)
           /\ papply.res.prior = Times(a.prior_scale, PriorFn(comp.enn.prior_fn, papply.x, papply.z).value)
           /\ papply.res.preds = Plus(papply.res.train, papply.res.prior)

C5_Witness ==
  /\ comp.args.kind = "hypermodel_prior" /\ comp.args.prior_scale # 1
  /\ comp.args.return_generated_params
  /\ papply.op = "apply" /\ papply.res.status = "ok"

====
